---- MODULE Spec2Model ----
(***************************************************************************)
(* Model of the report360 back office (backend/app): the relational tables *)
(* with their soft-delete flag, the permission check in front of the route *)
(* handlers, the cascading client delete, and the expense, invoice and     *)
(* payment status handlers.                                                *)
(*                                                                         *)
(* A table is a function from row id to row record; its DOMAIN is the set  *)
(* of stored rows.  A NULL foreign key or date is 0.  Every handler is one *)
(* action and leaves the HTTP answer in `response`.                        *)
(*                                                                         *)
(* app/core/security.get_current_user is not part of the sources; every    *)
(* caller (api/dependencies.py:46-53,72, api/v1/payments.py:22) treats its *)
(* result as the dict of JWT claims, so the acting user is a role string   *)
(* plus, for a vendor, a vendor id.                                        *)
(***************************************************************************)
EXTENDS Integers, FiniteSets, Sequences, TLC

\* ---------------------------------------------------------------- bounds
MaxClients == 2
MaxProjects == 2
MaxCampaigns == 2
MaxExpenses == 1
MaxReports == 1
MaxActivities == 1
MaxInvoices == 2
MaxPayments == 2
\* rows of clients, projects, campaigns, expenses, reports and promoter
\* activities, and invoice ids, in all
MaxRows == 4

\* ids of the vendors table (the rows themselves are never written here)
Vendors == {1, 2}
\* invoice / payment amounts a request may carry
Amounts == {10, 20}
\* the roles requests are sent with (a subset of UserRole)
Roles == {"admin", "accounts", "sales", "vendor", "driver"}
\* the roles used against the client/project/campaign handlers: admin is the
\* only role of ROLE_PERMISSIONS that holds the *.delete permissions
CascadeRoles == {"admin"}

NULL == 0

VARIABLES
  clients,              \* id -> [is_active]
  projects,             \* id -> [client_id, is_active]
  campaigns,            \* id -> [project_id, is_active]
  expenses,             \* id -> [campaign_id, status, approved_date, is_active]
  reports,              \* id -> [campaign_id, is_active]
  invoices,             \* id -> [invoice_number, invoice_file, campaign_id, vendor_id, amount,
                        \*        status, is_active]
  promoter_activities,  \* id -> [campaign_id, is_active]
  driver_assignments,   \* id -> [campaign_id, is_active]
  payments,             \* id -> [invoice_id, vendor_id, amount, status, payment_date, is_active]
  invoice_seq,          \* AUTO_INCREMENT counter of invoices
  payment_seq,          \* AUTO_INCREMENT counter of payments
  role_permissions,     \* the database table role_permissions: set of <<role, permission>>
  response,             \* answer to the last request
  requests              \* the requests in flight: slot -> what the handler has read so far

tables == <<clients, projects, campaigns, expenses, reports, invoices,
            promoter_activities, driver_assignments, payments>>
vars == <<clients, projects, campaigns, expenses, reports, invoices,
          promoter_activities, driver_assignments, payments,
          invoice_seq, payment_seq, role_permissions, response, requests>>

\* ------------------------------------------------------------ permissions
\* RolePermissions.ROLE_PERMISSIONS, restricted to the modelled roles and to
\* the permissions the modelled handlers require.
AllPermissions ==
  {"client.create", "client.update", "client.delete",
   "project.create", "project.update", "project.delete",
   "campaign.create", "campaign.update", "campaign.delete",
   "expense.create", "expense.update", "expense.delete", "expense.approve",
   "report.create", "report.delete", "promoter_activity.create",
   "invoice.create", "invoice.update", "invoice.delete", "invoice.approve",
   "payment.create", "payment.update", "payment.delete"}

ROLE_PERMISSIONS ==
  [r \in Roles |->
     CASE r = "admin"    -> AllPermissions
       [] r = "sales"    -> {"client.create", "client.update",
                             "project.create", "project.update"}
       [] r = "accounts" -> {"expense.create", "expense.update", "expense.approve",
                             "invoice.approve", "payment.create", "payment.update"}
       [] r = "vendor"   -> {"expense.create", "invoice.create", "invoice.update"}
       [] r = "driver"   -> {"expense.create"}]

has_permission(role, permission) == permission \in ROLE_PERMISSIONS[role]

\* db_ok = FALSE: the SELECT on role_permissions raises.  A SELECT that finds
\* no row falls through to the hardcoded table as well.
check_user_permission(role, permission, db_ok) ==
  IF db_ok /\ <<role, permission>> \in role_permissions
    THEN TRUE
    ELSE has_permission(role, permission)

require_permissionOpen(role, permission, db_ok) == TRUE

\* TRUE when permission_checker lets the request through, FALSE when it
\* raises 403.
require_permission(role, permission, db_ok) ==
  check_user_permission(role, permission, db_ok)

\* ---------------------------------------------------------------- helpers
\* TRUE while n more rows fit the model's bound
Room(n) ==
  Cardinality(DOMAIN clients) + Cardinality(DOMAIN projects) + Cardinality(DOMAIN campaigns)
    + Cardinality(DOMAIN expenses) + Cardinality(DOMAIN reports)
    + Cardinality(DOMAIN promoter_activities) + (invoice_seq - 1) + n <= MaxRows

Resp(op, id, role, code) == [op |-> op, id |-> id, role |-> role, code |-> code]

\* autoincrement id of a table that never loses rows
NextId(tbl) == Cardinality(DOMAIN tbl) + 1

Insert(tbl, id, row) == [i \in DOMAIN tbl \cup {id} |-> IF i = id THEN row ELSE tbl[i]]

\* BaseRepository.get_by_id: the row, only when it is stored and active
get_by_id(tbl, id) == id \in DOMAIN tbl /\ tbl[id].is_active

IsActive(tbl, id) == id \in DOMAIN tbl /\ tbl[id].is_active

\* UPDATE <tbl> SET is_active = 0 WHERE id IN ids AND is_active  (rows hit)
SoftDeleteWhere(tbl, ids) ==
  [i \in DOMAIN tbl |-> IF i \in ids THEN [tbl[i] EXCEPT !.is_active = FALSE] ELSE tbl[i]]

\* BaseRepository.delete: UPDATE ... SET is_active = 0 WHERE id = :id
delete(tbl, id) == SoftDeleteWhere(tbl, {id})

DB == [clients |-> clients, projects |-> projects, campaigns |-> campaigns,
       expenses |-> expenses, reports |-> reports, invoices |-> invoices,
       promoter_activities |-> promoter_activities,
       driver_assignments |-> driver_assignments]

Empty == [i \in {} |-> NULL]

Init ==
  /\ clients = Empty /\ projects = Empty /\ campaigns = Empty
  /\ expenses = Empty /\ reports = Empty /\ invoices = Empty
  /\ promoter_activities = Empty /\ driver_assignments = Empty
  /\ payments = Empty
  /\ invoice_seq = 1 /\ payment_seq = 1
  /\ role_permissions = {}
  /\ requests = Empty
  /\ response = Resp("none", NULL, "admin", 0)

\* ------------------------------------------------- cascading client delete
\* Rows of a dependent table whose campaign_id is in campaign_ids
ByCampaign(tbl, campaign_ids) == {i \in DOMAIN tbl : tbl[i].campaign_id \in campaign_ids}

\* Step 2: active projects of the client
project_ids(db, client_id) ==
  {p \in DOMAIN db.projects : db.projects[p].client_id = client_id /\ db.projects[p].is_active}

\* Step 3: active campaigns of these projects
campaign_ids(db, client_id) ==
  {k \in DOMAIN db.campaigns :
     db.campaigns[k].project_id \in project_ids(db, client_id) /\ db.campaigns[k].is_active}

\* Steps 4a..4h are numbered 1..8; a step runs only under its `if`.
StepRuns(db, n, client_id) ==
  IF n <= 6 THEN campaign_ids(db, client_id) # {}
  ELSE IF n = 7 THEN project_ids(db, client_id) # {}
  ELSE TRUE

\* The UPDATE of step n, applied to the transaction's view tx; pids and kids
\* are the id lists read in steps 2 and 3.
StepApply(tx, n, client_id, pids, kids) ==
  CASE n = 1 -> [tx EXCEPT !.expenses = SoftDeleteWhere(tx.expenses, ByCampaign(tx.expenses, kids))]
    [] n = 2 -> [tx EXCEPT !.reports = SoftDeleteWhere(tx.reports, ByCampaign(tx.reports, kids))]
    [] n = 3 -> [tx EXCEPT !.invoices = SoftDeleteWhere(tx.invoices, ByCampaign(tx.invoices, kids))]
    [] n = 4 -> [tx EXCEPT !.promoter_activities =
                   SoftDeleteWhere(tx.promoter_activities, ByCampaign(tx.promoter_activities, kids))]
    [] n = 5 -> [tx EXCEPT !.driver_assignments =
                   SoftDeleteWhere(tx.driver_assignments, ByCampaign(tx.driver_assignments, kids))]
    [] n = 6 -> [tx EXCEPT !.campaigns = SoftDeleteWhere(tx.campaigns, kids)]
    [] n = 7 -> [tx EXCEPT !.projects = SoftDeleteWhere(tx.projects, pids)]
    [] n = 8 -> [tx EXCEPT !.clients = SoftDeleteWhere(tx.clients, {client_id})]

RECURSIVE ApplySteps(_, _, _)
\* the transaction's view after steps 1..n
ApplySteps(db, n, client_id) ==
  IF n = 0 THEN db
  ELSE LET prev == ApplySteps(db, n - 1, client_id)
       IN IF StepRuns(db, n, client_id)
            THEN StepApply(prev, n, client_id, project_ids(db, client_id), campaign_ids(db, client_id))
            ELSE prev

\* result.rowcount of UPDATE ... WHERE id in ids AND is_active == True
rowcount(tbl, ids) == Cardinality({i \in ids \cap DOMAIN tbl : tbl[i].is_active})

\* the counters of safe_delete_client after its UPDATEs; a counter whose
\* UPDATE is skipped keeps 0
counts(db, client_id) ==
  LET pids == project_ids(db, client_id)
      kids == campaign_ids(db, client_id)
      of(tbl) == IF kids # {} THEN rowcount(tbl, ByCampaign(tbl, kids)) ELSE 0
  IN  [client |-> rowcount(db.clients, {client_id}),
       projects |-> IF pids # {} THEN rowcount(db.projects, pids) ELSE 0,
       campaigns |-> IF kids # {} THEN rowcount(db.campaigns, kids) ELSE 0,
       expenses |-> of(db.expenses),
       reports |-> of(db.reports),
       invoices |-> of(db.invoices),
       promoter_activities |-> of(db.promoter_activities),
       driver_assignments |-> of(db.driver_assignments)]

CommitStep == 9

rollbackKeepsWrites(db, tx) == tx

\* await db.rollback(): the uncommitted writes of the transaction are dropped
rollback(db, tx) == db

\* fail_at = 0: no statement raises; 1..8: the UPDATE of that step raises (if
\* it runs); CommitStep: the commit raises.  The result is the database after
\* the call and the exception that leaves the function.
safe_delete_client(db, client_id, fail_at) ==
  LET found   == IsActive(db.clients, client_id)
      failing == fail_at # 0 /\ (fail_at = CommitStep \/ StepRuns(db, fail_at, client_id))
      tx      == ApplySteps(db, IF failing THEN fail_at - 1 ELSE 8, client_id)
  IN IF ~found
       \* the ValueError is raised inside the try and caught by `except Exception`
       THEN [db |-> rollback(db, db), raised |-> "Exception"]
     ELSE IF failing
       THEN [db |-> rollback(db, tx), raised |-> "Exception"]
     ELSE [db |-> tx, raised |-> "none", deleted_counts |-> counts(db, client_id)]

SetDB(db) ==
  /\ clients' = db.clients /\ projects' = db.projects /\ campaigns' = db.campaigns
  /\ expenses' = db.expenses /\ reports' = db.reports /\ invoices' = db.invoices
  /\ promoter_activities' = db.promoter_activities
  /\ driver_assignments' = db.driver_assignments

\* DELETE /clients/{client_id}
delete_client(role, client_id, fail_at, db_ok) ==
  /\ UNCHANGED <<payments, invoice_seq, payment_seq, role_permissions, requests>>
  /\ IF ~require_permission(role, "client.delete", db_ok)
       THEN /\ SetDB(DB)
            /\ response' = Resp("delete_client", client_id, role, 403)
       ELSE LET r == safe_delete_client(DB, client_id, fail_at)
            IN /\ SetDB(r.db)
               /\ response' = Resp("delete_client", client_id, role,
                                   CASE r.raised = "none" -> 200
                                     [] r.raised = "ValueError" -> 404
                                     [] OTHER -> 500)

countStored(tbl, ids) == Cardinality(ids \cap DOMAIN tbl)

\* select(func.count(id)).where(campaign_id.in_(campaign_ids), is_active == True)
count(tbl, ids) == Cardinality({i \in ids \cap DOMAIN tbl : tbl[i].is_active})

\* the answer of get_client_deletion_preview, or the exception that leaves it
get_client_deletion_preview(db, client_id) ==
  LET pids == project_ids(db, client_id)
      kids == campaign_ids(db, client_id)
      of(tbl) == IF kids # {} THEN count(tbl, ByCampaign(tbl, kids)) ELSE 0
  IN  IF ~IsActive(db.clients, client_id)
        THEN [raised |-> "ValueError", will_delete |-> << >>]
      ELSE [raised |-> "none",
            will_delete |-> [projects |-> Cardinality(pids),
                             campaigns |-> Cardinality(kids),
                             expenses |-> of(db.expenses),
                             reports |-> of(db.reports),
                             invoices |-> of(db.invoices),
                             promoter_activities |-> of(db.promoter_activities),
                             driver_assignments |-> of(db.driver_assignments)]]

\* GET /clients/{client_id}/deletion-preview
get_deletion_preview(role, client_id, db_ok) ==
  /\ UNCHANGED <<tables, invoice_seq, payment_seq, role_permissions, requests>>
  /\ IF ~require_permission(role, "client.delete", db_ok)
       THEN response' = Resp("get_deletion_preview",
                             [client_id |-> client_id, will_delete |-> << >>], role, 403)
     ELSE LET preview == get_client_deletion_preview(DB, client_id)
          IN  response' = Resp("get_deletion_preview",
                               [client_id |-> client_id, will_delete |-> preview.will_delete],
                               role,
                               IF preview.raised = "ValueError" THEN 404 ELSE 200)

\* -------------------------------------------------------------- clients
\* POST /clients
create_client(role, db_ok) ==
  /\ NextId(clients) <= MaxClients
  /\ Room(1)
  /\ UNCHANGED <<projects, campaigns, expenses, reports, invoices, promoter_activities,
                 driver_assignments, payments, invoice_seq, payment_seq, role_permissions, requests>>
  /\ IF ~require_permission(role, "client.create", db_ok)
       THEN /\ UNCHANGED clients
            /\ response' = Resp("create_client", NULL, role, 403)
       ELSE /\ clients' = Insert(clients, NextId(clients), [is_active |-> TRUE])
            /\ response' = Resp("create_client", NextId(clients), role, 201)

\* PUT/PATCH /clients/{client_id}: no modelled column is in ClientUpdate
update_client(role, client_id, db_ok) ==
  /\ UNCHANGED <<tables, invoice_seq, payment_seq, role_permissions, requests>>
  /\ response' = Resp("update_client", client_id, role,
                      IF ~require_permission(role, "client.update", db_ok) THEN 403
                      ELSE IF ~get_by_id(clients, client_id) THEN 404
                      ELSE 200)

\* -------------------------------------------------------------- projects
\* POST /projects; the foreign key needs a stored client row, active or not
create_project(role, client_id, db_ok) ==
  /\ NextId(projects) <= MaxProjects
  /\ Room(1)
  /\ UNCHANGED <<clients, campaigns, expenses, reports, invoices, promoter_activities,
                 driver_assignments, payments, invoice_seq, payment_seq, role_permissions, requests>>
  /\ IF ~require_permission(role, "project.create", db_ok)
       THEN /\ UNCHANGED projects
            /\ response' = Resp("create_project", NULL, role, 403)
     ELSE IF client_id \notin DOMAIN clients
       THEN /\ UNCHANGED projects
            /\ response' = Resp("create_project", NULL, role, 500)
     ELSE /\ projects' = Insert(projects, NextId(projects),
                                [client_id |-> client_id, is_active |-> TRUE])
          /\ response' = Resp("create_project", NextId(projects), role, 201)

\* PUT/PATCH /projects/{project_id}; client_id = NULL: the field is unset
update_project(role, project_id, client_id, db_ok) ==
  /\ UNCHANGED <<clients, campaigns, expenses, reports, invoices, promoter_activities,
                 driver_assignments, payments, invoice_seq, payment_seq, role_permissions, requests>>
  /\ IF ~require_permission(role, "project.update", db_ok)
       THEN /\ UNCHANGED projects
            /\ response' = Resp("update_project", project_id, role, 403)
     ELSE IF ~get_by_id(projects, project_id)
       THEN /\ UNCHANGED projects
            /\ response' = Resp("update_project", project_id, role, 404)
     ELSE IF client_id # NULL /\ client_id \notin DOMAIN clients
       THEN /\ UNCHANGED projects
            /\ response' = Resp("update_project", project_id, role, 500)
     ELSE /\ projects' = IF client_id = NULL THEN projects
                         ELSE [projects EXCEPT ![project_id].client_id = client_id]
          /\ response' = Resp("update_project", project_id, role, 200)

\* DELETE /projects/{project_id}: the project row only
delete_project(role, project_id, db_ok) ==
  /\ UNCHANGED <<clients, campaigns, expenses, reports, invoices, promoter_activities,
                 driver_assignments, payments, invoice_seq, payment_seq, role_permissions, requests>>
  /\ IF ~require_permission(role, "project.delete", db_ok)
       THEN /\ UNCHANGED projects
            /\ response' = Resp("delete_project", project_id, role, 403)
     ELSE IF ~get_by_id(projects, project_id)
       THEN /\ UNCHANGED projects
            /\ response' = Resp("delete_project", project_id, role, 404)
     ELSE /\ projects' = delete(projects, project_id)
          /\ response' = Resp("delete_project", project_id, role, 204)

\* -------------------------------------------------------------- campaigns
\* the i-th vendor of a vendor_ids list (lists are taken in ascending order)
Nth(S, i) == CHOOSE v \in S : Cardinality({w \in S : w < v}) = i - 1

\* the invoice numbers "PLACEHOLDER-{campaign_id}-{vendor_id}-{date}"; the
\* campaign and the vendor are columns of the row
PlaceholderNumber == 0

\* Invoice(campaign_id, vendor_id, "PLACEHOLDER-{campaign_id}-{vendor_id}-{date}",
\*         amount=0.0, status=PENDING), one per vendor, ids from the counter
AddPlaceholders(inv, seq, campaign_id, vendor_ids) ==
  LET n == Cardinality(vendor_ids)
  IN [i \in DOMAIN inv \cup (seq .. seq + n - 1) |->
        IF i \in DOMAIN inv THEN inv[i]
        ELSE [invoice_number |-> PlaceholderNumber, invoice_file |-> NULL,
              campaign_id |-> campaign_id,
              vendor_id |-> Nth(vendor_ids, i - seq + 1),
              amount |-> 0, status |-> "pending", is_active |-> TRUE]]

\* rows matching campaign_id = :id AND invoice_number LIKE 'PLACEHOLDER-{id}-%'
Placeholders(inv, campaign_id) ==
  {i \in DOMAIN inv : inv[i].campaign_id = campaign_id
                        /\ inv[i].invoice_number = PlaceholderNumber}

Restrict(tbl, ids) == [i \in ids |-> tbl[i]]

\* POST /campaigns (CampaignService.create_campaign)
create_campaign(role, project_id, vendor_ids, db_ok) ==
  /\ NextId(campaigns) <= MaxCampaigns
  /\ invoice_seq + Cardinality(vendor_ids) - 1 <= MaxInvoices
  /\ Room(1 + Cardinality(vendor_ids))
  /\ UNCHANGED <<clients, projects, expenses, reports, promoter_activities,
                 driver_assignments, payments, payment_seq, role_permissions, requests>>
  /\ IF ~require_permission(role, "campaign.create", db_ok)
       THEN /\ UNCHANGED <<campaigns, invoices, invoice_seq>>
            /\ response' = Resp("create_campaign", NULL, role, 403)
     ELSE IF project_id \notin DOMAIN projects
       THEN /\ UNCHANGED <<campaigns, invoices, invoice_seq>>
            /\ response' = Resp("create_campaign", NULL, role, 500)
     ELSE /\ campaigns' = Insert(campaigns, NextId(campaigns),
                                 [project_id |-> project_id, is_active |-> TRUE])
          /\ invoices' = AddPlaceholders(invoices, invoice_seq, NextId(campaigns), vendor_ids)
          /\ invoice_seq' = invoice_seq + Cardinality(vendor_ids)
          /\ response' = Resp("create_campaign", NextId(campaigns), role, 201)

\* PUT/PATCH /campaigns/{campaign_id} (CampaignService.update_campaign);
\* set_vendors = FALSE: vendor_ids is not in the request.  The DELETE removes
\* the rows, and ON DELETE CASCADE removes their payments.
update_campaign(role, campaign_id, set_vendors, vendor_ids, db_ok) ==
  /\ set_vendors => invoice_seq + Cardinality(vendor_ids) - 1 <= MaxInvoices
  /\ set_vendors => Room(Cardinality(vendor_ids))
  /\ UNCHANGED <<clients, projects, campaigns, expenses, reports, promoter_activities,
                 driver_assignments, payment_seq, role_permissions, requests>>
  /\ IF ~require_permission(role, "campaign.update", db_ok)
       THEN /\ UNCHANGED <<invoices, invoice_seq, payments>>
            /\ response' = Resp("update_campaign", campaign_id, role, 403)
     ELSE IF ~get_by_id(campaigns, campaign_id)
       THEN /\ UNCHANGED <<invoices, invoice_seq, payments>>
            /\ response' = Resp("update_campaign", campaign_id, role, 404)
     ELSE IF ~set_vendors
       THEN /\ UNCHANGED <<invoices, invoice_seq, payments>>
            /\ response' = Resp("update_campaign", campaign_id, role, 200)
     ELSE LET gone == Placeholders(invoices, campaign_id)
              kept == Restrict(invoices, DOMAIN invoices \ gone)
          IN /\ invoices' = AddPlaceholders(kept, invoice_seq, campaign_id, vendor_ids)
             /\ invoice_seq' = invoice_seq + Cardinality(vendor_ids)
             /\ payments' = Restrict(payments,
                               {p \in DOMAIN payments : payments[p].invoice_id \notin gone})
             /\ response' = Resp("update_campaign", campaign_id, role, 200)

\* DELETE /campaigns/{campaign_id} (CampaignService.delete_campaign): the
\* campaign row and its placeholder invoices
delete_campaign(role, campaign_id, db_ok) ==
  /\ UNCHANGED <<clients, projects, expenses, reports, promoter_activities,
                 driver_assignments, payments, invoice_seq, payment_seq, role_permissions, requests>>
  /\ IF ~require_permission(role, "campaign.delete", db_ok)
       THEN /\ UNCHANGED <<campaigns, invoices>>
            /\ response' = Resp("delete_campaign", campaign_id, role, 403)
     ELSE IF ~get_by_id(campaigns, campaign_id)
       THEN /\ UNCHANGED <<campaigns, invoices>>
            /\ response' = Resp("delete_campaign", campaign_id, role, 404)
     ELSE /\ campaigns' = delete(campaigns, campaign_id)
          /\ invoices' = SoftDeleteWhere(invoices, Placeholders(invoices, campaign_id))
          /\ response' = Resp("delete_campaign", campaign_id, role, 204)

\* ------------------------------------------------ reports, activities
\* POST /reports; ReportCreate.campaign_id is required
create_report(role, campaign_id, db_ok) ==
  /\ NextId(reports) <= MaxReports
  /\ Room(1)
  /\ UNCHANGED <<clients, projects, campaigns, expenses, invoices, promoter_activities,
                 driver_assignments, payments, invoice_seq, payment_seq, role_permissions, requests>>
  /\ IF ~require_permission(role, "report.create", db_ok)
       THEN /\ UNCHANGED reports
            /\ response' = Resp("create_report", NULL, role, 403)
     ELSE IF campaign_id \notin DOMAIN campaigns
       THEN /\ UNCHANGED reports
            /\ response' = Resp("create_report", NULL, role, 500)
     ELSE /\ reports' = Insert(reports, NextId(reports),
                               [campaign_id |-> campaign_id, is_active |-> TRUE])
          /\ response' = Resp("create_report", NextId(reports), role, 201)

\* DELETE /reports/{report_id}
delete_report(role, report_id, db_ok) ==
  /\ UNCHANGED <<clients, projects, campaigns, expenses, invoices, promoter_activities,
                 driver_assignments, payments, invoice_seq, payment_seq, role_permissions, requests>>
  /\ IF ~require_permission(role, "report.delete", db_ok)
       THEN /\ UNCHANGED reports
            /\ response' = Resp("delete_report", report_id, role, 403)
     ELSE IF ~get_by_id(reports, report_id)
       THEN /\ UNCHANGED reports
            /\ response' = Resp("delete_report", report_id, role, 404)
     ELSE /\ reports' = delete(reports, report_id)
          /\ response' = Resp("delete_report", report_id, role, 204)

\* POST /promoter-activities; PromoterActivityCreate.campaign_id is required
create_activity(role, campaign_id, db_ok) ==
  /\ NextId(promoter_activities) <= MaxActivities
  /\ Room(1)
  /\ UNCHANGED <<clients, projects, campaigns, expenses, reports, invoices,
                 driver_assignments, payments, invoice_seq, payment_seq, role_permissions, requests>>
  /\ IF ~require_permission(role, "promoter_activity.create", db_ok)
       THEN /\ UNCHANGED promoter_activities
            /\ response' = Resp("create_activity", NULL, role, 403)
     ELSE IF campaign_id \notin DOMAIN campaigns
       THEN /\ UNCHANGED promoter_activities
            /\ response' = Resp("create_activity", NULL, role, 500)
     ELSE /\ promoter_activities' = Insert(promoter_activities, NextId(promoter_activities),
                                           [campaign_id |-> campaign_id, is_active |-> TRUE])
          /\ response' = Resp("create_activity", NextId(promoter_activities), role, 201)

\* DELETE /promoter-activities/{activity_id}, behind CAMPAIGN_DELETE
delete_activity(role, activity_id, db_ok) ==
  /\ UNCHANGED <<clients, projects, campaigns, expenses, reports, invoices,
                 driver_assignments, payments, invoice_seq, payment_seq, role_permissions, requests>>
  /\ IF ~require_permission(role, "campaign.delete", db_ok)
       THEN /\ UNCHANGED promoter_activities
            /\ response' = Resp("delete_activity", activity_id, role, 403)
     ELSE IF ~get_by_id(promoter_activities, activity_id)
       THEN /\ UNCHANGED promoter_activities
            /\ response' = Resp("delete_activity", activity_id, role, 404)
     ELSE /\ promoter_activities' = delete(promoter_activities, activity_id)
          /\ response' = Resp("delete_activity", activity_id, role, 204)

\* -------------------------------------------------------------- expenses
\* date.today(), as opposed to the NULL date
Today == 1

\* BaseRepository.update: UPDATE ... SET <data> WHERE id = :id, whatever the
\* row's is_active; data is a function from column name to value
update(tbl, id, data) ==
  [i \in DOMAIN tbl |->
     IF i = id
       THEN [f \in DOMAIN tbl[i] |-> IF f \in DOMAIN data THEN data[f] ELSE tbl[i][f]]
       ELSE tbl[i]]

\* POST /expenses (ExpenseService.create_expense); campaign_id may be NULL
create_expense(role, campaign_id, db_ok) ==
  /\ NextId(expenses) <= MaxExpenses
  /\ Room(1)
  /\ UNCHANGED <<clients, projects, campaigns, reports, invoices, promoter_activities,
                 driver_assignments, payments, invoice_seq, payment_seq, role_permissions, requests>>
  /\ IF ~require_permission(role, "expense.create", db_ok)
       THEN /\ UNCHANGED expenses
            /\ response' = Resp("create_expense", NULL, role, 403)
     ELSE IF campaign_id # NULL /\ campaign_id \notin DOMAIN campaigns
       THEN /\ UNCHANGED expenses
            /\ response' = Resp("create_expense", NULL, role, 500)
     ELSE /\ expenses' = Insert(expenses, NextId(expenses),
                                [campaign_id |-> campaign_id, status |-> "pending",
                                 approved_date |-> NULL, is_active |-> TRUE])
          /\ response' = Resp("create_expense", NextId(expenses), role, 201)

\* PATCH /expenses/{expense_id}/approve (ExpenseService.approve_expense)
approve_expense(role, expense_id, db_ok) ==
  /\ UNCHANGED <<clients, projects, campaigns, reports, invoices, promoter_activities,
                 driver_assignments, payments, invoice_seq, payment_seq, role_permissions, requests>>
  /\ IF ~require_permission(role, "expense.approve", db_ok)
       THEN /\ UNCHANGED expenses
            /\ response' = Resp("approve_expense", expense_id, role, 403)
       ELSE /\ expenses' = update(expenses, expense_id,
                                  [status |-> "approved", approved_date |-> Today])
            /\ response' = Resp("approve_expense", expense_id, role,
                                IF get_by_id(expenses', expense_id) THEN 200 ELSE 404)

\* PATCH /expenses/{expense_id}/reject (ExpenseService.reject_expense)
reject_expense(role, expense_id, db_ok) ==
  /\ UNCHANGED <<clients, projects, campaigns, reports, invoices, promoter_activities,
                 driver_assignments, payments, invoice_seq, payment_seq, role_permissions, requests>>
  /\ IF ~require_permission(role, "expense.approve", db_ok)
       THEN /\ UNCHANGED expenses
            /\ response' = Resp("reject_expense", expense_id, role, 403)
       ELSE /\ expenses' = update(expenses, expense_id, [status |-> "rejected"])
            /\ response' = Resp("reject_expense", expense_id, role,
                                IF get_by_id(expenses', expense_id) THEN 200 ELSE 404)

\* PUT /expenses/{expense_id} (ExpenseService.update_expense); the body is
\* an ExpenseCreate, so campaign_id is always written, status never
update_expense(role, expense_id, campaign_id, db_ok) ==
  /\ UNCHANGED <<clients, projects, campaigns, reports, invoices, promoter_activities,
                 driver_assignments, payments, invoice_seq, payment_seq, role_permissions, requests>>
  /\ IF ~require_permission(role, "expense.update", db_ok)
       THEN /\ UNCHANGED expenses
            /\ response' = Resp("update_expense", expense_id, role, 403)
     ELSE IF expense_id \in DOMAIN expenses /\ campaign_id # NULL
             /\ campaign_id \notin DOMAIN campaigns
       THEN /\ UNCHANGED expenses
            /\ response' = Resp("update_expense", expense_id, role, 500)
     ELSE /\ expenses' = update(expenses, expense_id, [campaign_id |-> campaign_id])
          /\ response' = Resp("update_expense", expense_id, role,
                              IF get_by_id(expenses', expense_id) THEN 200 ELSE 404)

\* DELETE /expenses/{expense_id} (ExpenseService.delete_expense)
delete_expense(role, expense_id, db_ok) ==
  /\ UNCHANGED <<clients, projects, campaigns, reports, invoices, promoter_activities,
                 driver_assignments, payments, invoice_seq, payment_seq, role_permissions, requests>>
  /\ IF ~require_permission(role, "expense.delete", db_ok)
       THEN /\ UNCHANGED expenses
            /\ response' = Resp("delete_expense", expense_id, role, 403)
     ELSE IF ~get_by_id(expenses, expense_id)
       THEN /\ UNCHANGED expenses
            /\ response' = Resp("delete_expense", expense_id, role, 404)
     ELSE /\ expenses' = delete(expenses, expense_id)
          /\ response' = Resp("delete_expense", expense_id, role, 204)

\* ------------------------------------------------------ invoices, payments
\* The acting user of these handlers is the JWT's role and, for a vendor
\* user, its vendor_id (NULL: the user is linked to no vendor).  The columns
\* invoice_date, payment_method, transaction_reference and remarks are not
\* modelled; POST /invoices is sent without an invoice_file.

\* the invoice number requests carry (invoices.invoice_number is UNIQUE, so a
\* second POST with it is refused)
InvoiceNumbers == {1}
\* the PaymentStatus values requests are sent with
PaymentStatuses == {"pending", "completed"}
\* a field that is not set in a PaymentUpdate body (exclude_unset=True)
UNSET == -1
\* the roles requests to the invoice and payment handlers are sent with
InvoiceRoles == {"admin", "accounts", "vendor"}

\* InvoiceRepository.update / PaymentRepository.update: the row is fetched
\* with get_by_id first, so only an active row is written
update_if_active(tbl, id, data) ==
  IF get_by_id(tbl, id) THEN update(tbl, id, data) ELSE tbl

\* InvoiceRepository.delete / PaymentRepository.delete
delete_if_active(tbl, id) ==
  IF get_by_id(tbl, id) THEN delete(tbl, id) ELSE tbl

\* PaymentRepository.get_by_invoice: the active payment rows of the invoice
get_by_invoice(pay, invoice_id) ==
  {p \in DOMAIN pay : pay[p].invoice_id = invoice_id /\ pay[p].is_active}

PaymentRowOfNoUnique(pay, invoice_id) == {}

\* payments.invoice_id is UNIQUE: an INSERT for an invoice that has a stored
\* payment row, active or not, raises IntegrityError
PaymentRowOf(pay, invoice_id) == {p \in DOMAIN pay : pay[p].invoice_id = invoice_id}

PendingPaymentKeepsDate(invoice) ==
  [amount |-> invoice.amount, status |-> "pending", vendor_id |-> invoice.vendor_id]

\* the columns approve_invoice writes to the invoice's payment
PendingPayment(invoice) ==
  [amount |-> invoice.amount, status |-> "pending", payment_date |-> NULL,
   vendor_id |-> invoice.vendor_id]

\* Payment(**data) with its column defaults, for an invoice
NewPayment(invoice_id, data) ==
  [invoice_id |-> invoice_id, vendor_id |-> data.vendor_id, amount |-> data.amount,
   status |-> data.status,
   payment_date |-> IF "payment_date" \in DOMAIN data THEN data.payment_date ELSE NULL,
   is_active |-> TRUE]

\* POST /invoices
create_invoice(role, user_vendor_id, invoice_number, amount, campaign_id) ==
  /\ invoice_seq <= MaxInvoices
  /\ Room(1)
  /\ UNCHANGED <<clients, projects, campaigns, expenses, reports, promoter_activities,
                 driver_assignments, payments, payment_seq, role_permissions, requests>>
  /\ IF role = "vendor" /\ user_vendor_id = NULL
       THEN /\ UNCHANGED <<invoices, invoice_seq>>
            /\ response' = Resp("create_invoice", NULL, role, 403)
     ELSE IF role = "admin"
       THEN /\ UNCHANGED <<invoices, invoice_seq>>
            /\ response' = Resp("create_invoice", NULL, role, 400)
     ELSE IF role # "vendor"
       THEN /\ UNCHANGED <<invoices, invoice_seq>>
            /\ response' = Resp("create_invoice", NULL, role, 403)
     ELSE IF \/ \E i \in DOMAIN invoices : invoices[i].invoice_number = invoice_number
             \/ campaign_id # NULL /\ campaign_id \notin DOMAIN campaigns
       THEN /\ UNCHANGED <<invoices, invoice_seq>>
            /\ response' = Resp("create_invoice", NULL, role, 500)
     ELSE /\ invoices' = Insert(invoices, invoice_seq,
                                [invoice_number |-> invoice_number, invoice_file |-> NULL,
                                 campaign_id |-> campaign_id,
                                 vendor_id |-> user_vendor_id, amount |-> amount,
                                 status |-> "pending", is_active |-> TRUE])
          /\ invoice_seq' = invoice_seq + 1
          /\ response' = Resp("create_invoice", invoice_seq, role, 201)

can_approveAnyRole(user_role) == TRUE

\* user_role in ["admin", "accounts"], the check of approve_invoice and
\* mark_invoice_paid
can_approve(user_role) == user_role \in {"admin", "accounts"}

\* POST /invoices/{invoice_id}/approve.  The invoice's status is committed
\* before the payment is written, so a failing INSERT of the payment leaves
\* the invoice approved.
approve_invoice(role, invoice_id) ==
  /\ (/\ get_by_id(invoices, invoice_id)
      /\ PaymentRowOf(payments, invoice_id) = {}) => payment_seq <= MaxPayments
  /\ UNCHANGED <<clients, projects, campaigns, expenses, reports, promoter_activities,
                 driver_assignments, invoice_seq, role_permissions, requests>>
  /\ IF ~can_approve(role)
       THEN /\ UNCHANGED <<invoices, payments, payment_seq>>
            /\ response' = Resp("approve_invoice", invoice_id, role, 403)
     ELSE IF ~get_by_id(invoices, invoice_id)
       THEN /\ UNCHANGED <<invoices, payments, payment_seq>>
            /\ response' = Resp("approve_invoice", invoice_id, role, 404)
     ELSE IF invoices[invoice_id].status = "approved"
       THEN /\ UNCHANGED <<invoices, payments, payment_seq>>
            /\ response' = Resp("approve_invoice", invoice_id, role, 400)
     ELSE LET invoice == invoices[invoice_id]
              payment == get_by_invoice(payments, invoice_id)
          IN /\ invoices' = update_if_active(invoices, invoice_id, [status |-> "approved"])
             /\ IF payment # {}
                  THEN /\ payments' = update_if_active(payments, CHOOSE p \in payment : TRUE,
                                                       PendingPayment(invoice))
                       /\ UNCHANGED payment_seq
                       /\ response' = Resp("approve_invoice", invoice_id, role, 200)
                ELSE IF PaymentRowOf(payments, invoice_id) # {}
                  THEN /\ UNCHANGED <<payments, payment_seq>>
                       /\ response' = Resp("approve_invoice", invoice_id, role, 500)
                ELSE /\ payments' = Insert(payments, payment_seq,
                                           NewPayment(invoice_id, PendingPayment(invoice)))
                     /\ payment_seq' = payment_seq + 1
                     /\ response' = Resp("approve_invoice", invoice_id, role, 200)

\* POST /invoices/{invoice_id}/mark_paid
mark_invoice_paid(role, invoice_id) ==
  /\ UNCHANGED <<clients, projects, campaigns, expenses, reports, promoter_activities,
                 driver_assignments, invoice_seq, payment_seq, role_permissions, requests>>
  /\ IF ~can_approve(role)
       THEN /\ UNCHANGED <<invoices, payments>>
            /\ response' = Resp("mark_invoice_paid", invoice_id, role, 403)
     ELSE IF ~get_by_id(invoices, invoice_id) \/ get_by_invoice(payments, invoice_id) = {}
       THEN /\ UNCHANGED <<invoices, payments>>
            /\ response' = Resp("mark_invoice_paid", invoice_id, role, 404)
     ELSE /\ payments' = update_if_active(payments,
                                          CHOOSE p \in get_by_invoice(payments, invoice_id) : TRUE,
                                          [status |-> "completed", payment_date |-> Today])
          /\ invoices' = update_if_active(invoices, invoice_id, [status |-> "paid"])
          /\ response' = Resp("mark_invoice_paid", invoice_id, role, 200)

\* PUT /invoices/{invoice_id}: get_by_id is called without await, and
\* current_user.role on the dict of JWT claims raises AttributeError before
\* anything is written
update_invoice(role, invoice_id) ==
  /\ UNCHANGED <<tables, invoice_seq, payment_seq, role_permissions, requests>>
  /\ response' = Resp("update_invoice", invoice_id, role, 500)

\* DELETE /invoices/{invoice_id}
delete_invoice(role, invoice_id) ==
  /\ UNCHANGED <<clients, projects, campaigns, expenses, reports, promoter_activities,
                 driver_assignments, payments, invoice_seq, payment_seq, role_permissions, requests>>
  /\ IF role # "admin"
       THEN /\ UNCHANGED invoices
            /\ response' = Resp("delete_invoice", invoice_id, role, 403)
       ELSE /\ invoices' = delete_if_active(invoices, invoice_id)
            /\ response' = Resp("delete_invoice", invoice_id, role, 204)

\* POST /payments; the vendor is taken from the invoice
create_payment(role, invoice_id, amount, status, payment_date) ==
  /\ payment_seq <= MaxPayments
  /\ UNCHANGED <<clients, projects, campaigns, expenses, reports, promoter_activities,
                 driver_assignments, invoice_seq, role_permissions, requests>>
  /\ IF role \notin {"admin", "accounts"}
       THEN /\ UNCHANGED <<invoices, payments, payment_seq>>
            /\ response' = Resp("create_payment", NULL, role, 403)
     ELSE IF ~get_by_id(invoices, invoice_id)
       THEN /\ UNCHANGED <<invoices, payments, payment_seq>>
            /\ response' = Resp("create_payment", NULL, role, 404)
     ELSE IF PaymentRowOf(payments, invoice_id) # {}
       THEN /\ UNCHANGED <<invoices, payments, payment_seq>>
            /\ response' = Resp("create_payment", NULL, role, 500)
     ELSE /\ payments' = Insert(payments, payment_seq,
                                NewPayment(invoice_id,
                                           [amount |-> amount, status |-> status,
                                            payment_date |-> payment_date,
                                            vendor_id |-> invoices[invoice_id].vendor_id]))
          /\ payment_seq' = payment_seq + 1
          /\ invoices' = IF status = "completed"
                           THEN update_if_active(invoices, invoice_id, [status |-> "paid"])
                           ELSE invoices
          /\ response' = Resp("create_payment", payment_seq, role, 201)

\* PUT /payments/{payment_id}; amount, payment_date = UNSET and
\* status = "unset": the field is not in the body
update_payment(role, payment_id, amount, status, payment_date) ==
  /\ UNCHANGED <<clients, projects, campaigns, expenses, reports, promoter_activities,
                 driver_assignments, invoice_seq, payment_seq, role_permissions, requests>>
  /\ IF role \notin {"admin", "accounts"}
       THEN /\ UNCHANGED <<invoices, payments>>
            /\ response' = Resp("update_payment", payment_id, role, 403)
     ELSE IF ~get_by_id(payments, payment_id)
       THEN /\ UNCHANGED <<invoices, payments>>
            /\ response' = Resp("update_payment", payment_id, role, 404)
     ELSE LET existing == payments[payment_id]
          IN /\ payments' =
                  [payments EXCEPT
                     ![payment_id].amount = IF amount = UNSET THEN @ ELSE amount,
                     ![payment_id].status = IF status = "unset" THEN @ ELSE status,
                     ![payment_id].payment_date = IF payment_date = UNSET THEN @ ELSE payment_date]
             /\ invoices' = IF status = "completed"
                              THEN update_if_active(invoices, existing.invoice_id,
                                                    [status |-> "paid"])
                              ELSE invoices
             /\ response' = Resp("update_payment", payment_id, role, 200)

\* DELETE /payments/{payment_id}
delete_payment(role, payment_id) ==
  /\ UNCHANGED <<clients, projects, campaigns, expenses, reports, promoter_activities,
                 driver_assignments, invoices, invoice_seq, payment_seq, role_permissions, requests>>
  /\ IF role # "admin"
       THEN /\ UNCHANGED payments
            /\ response' = Resp("delete_payment", payment_id, role, 403)
       ELSE /\ payments' = delete_if_active(payments, payment_id)
            /\ response' = Resp("delete_payment", payment_id, role, 204)

\* the URL path "/uploads/invoices/{filename}" of a saved file
Uploaded == 1

\* POST /invoices/{invoice_id}/upload: only a vendor user is checked against
\* the invoice; a user of any other role passes
upload_invoice_file(role, user_vendor_id, invoice_id) ==
  /\ UNCHANGED <<clients, projects, campaigns, expenses, reports, promoter_activities,
                 driver_assignments, payments, invoice_seq, payment_seq, role_permissions, requests>>
  /\ IF ~get_by_id(invoices, invoice_id)
       THEN /\ UNCHANGED invoices
            /\ response' = Resp("upload_invoice_file", invoice_id, role, 404)
     ELSE IF role = "vendor" /\ invoices[invoice_id].vendor_id # user_vendor_id
       THEN /\ UNCHANGED invoices
            /\ response' = Resp("upload_invoice_file", invoice_id, role, 403)
     ELSE /\ invoices' = update_if_active(invoices, invoice_id, [invoice_file |-> Uploaded])
          /\ response' = Resp("upload_invoice_file", invoice_id, role, 200)

\* ----------------------------------------------------- daily activity logs
\* The handlers of /daily-activity/logs depend on get_db alone: no user is
\* resolved.  get_db yields an AsyncSession, which has no `query` attribute,
\* so DailyActivityLogRepository raises AttributeError at its first statement
\* and the table daily_activity_logs is never written.
DailyLogIds == {1}

\* POST /daily-activity/logs/create: the exception is answered 400
create_daily_activity_log(driver_assignment_id) ==
  /\ UNCHANGED <<tables, invoice_seq, payment_seq, role_permissions, requests>>
  /\ response' = Resp("create_daily_activity_log", driver_assignment_id, "anonymous", 400)

\* PUT /daily-activity/logs/{log_id}: the exception is answered 400
update_daily_log(log_id) ==
  /\ UNCHANGED <<tables, invoice_seq, payment_seq, role_permissions, requests>>
  /\ response' = Resp("update_daily_log", log_id, "anonymous", 400)

\* DELETE /daily-activity/logs/{log_id}: the exception is not caught
delete_daily_log(log_id) ==
  /\ UNCHANGED <<tables, invoice_seq, payment_seq, role_permissions, requests>>
  /\ response' = Resp("delete_daily_log", log_id, "anonymous", 500)

\* ------------------------------------------------------- specification
\* ------------------------------------------------------ driver assignments
MaxAssignments == 2

\* the ids of the drivers table
Drivers == {1, 2}

\* the actions a DriverApprovalAction body carries
Actions == {"approve", "reject", "cancel"}

\* a rejection_reason that is given
Reason == 1

Vehicles == {1, 2}

\* the drivers table (models/driver.py): vendor_id is nullable, ON DELETE SET
\* NULL.  Driver 1 is vendor 1's, driver 2 has lost its vendor.
drivers == [d \in Drivers |-> [vendor_id |-> IF d = 1 THEN 1 ELSE NULL]]

\* the vehicles table (models/vehicle.py), with the same nullable vendor_id
vehicles == [v \in Vehicles |-> [vendor_id |-> IF v = 1 THEN 1 ELSE NULL]]

\* get_vendor_id_from_user: the vendor_id of the user's row, None when it is
\* not set
get_vendor_id_from_user(user_vendor_id) == user_vendor_id

\* get_vendor_id(current_user, db): the vendor a request acts for, or the
\* HTTPException it raises.  Admin, sales and client_servicing get None.
get_vendor_id(role, user_vendor_id) ==
  IF role = "admin" THEN [code |-> 200, vendor_id |-> NULL]
  ELSE IF role \notin {"vendor", "sales", "client_servicing"}
    THEN [code |-> 403, vendor_id |-> NULL]
  ELSE IF role \in {"sales", "client_servicing"} THEN [code |-> 200, vendor_id |-> NULL]
  ELSE IF get_vendor_id_from_user(user_vendor_id) = NULL
    THEN [code |-> 404, vendor_id |-> NULL]
  ELSE [code |-> 200, vendor_id |-> get_vendor_id_from_user(user_vendor_id)]

\* select(Driver | Vehicle).where(id == id, vendor_id == vendor_id): with
\* vendor_id None the comparison is rendered IS NULL
select_by_vendor(tbl, id, vendor_id) ==
  id \in DOMAIN tbl /\ tbl[id].vendor_id = vendor_id

\* VendorBookingService.create_work_assignment(db, vendor_id, ..., data):
\* the status it answers with, 201 when the row is added
create_work_assignment_service(vendor_id, driver_id, vehicle_id, campaign_id) ==
  IF ~select_by_vendor(drivers, driver_id, vendor_id) THEN 403
  ELSE IF ~select_by_vendor(vehicles, vehicle_id, vendor_id) THEN 403
  ELSE IF campaign_id \notin DOMAIN campaigns THEN 404
  ELSE 201

\* POST /vendor-booking/assignments?vendor_id=: the row starts with
\* approval_status PENDING_APPROVAL
create_work_assignment(role, user_vendor_id, vendor_id, driver_id, vehicle_id, campaign_id) ==
  /\ NextId(driver_assignments) <= MaxAssignments
  /\ UNCHANGED <<clients, projects, campaigns, expenses, reports, invoices,
                 promoter_activities, payments, invoice_seq, payment_seq,
                 role_permissions, requests>>
  /\ LET v == IF role = "admin" /\ vendor_id # NULL
                THEN [code |-> 200, vendor_id |-> vendor_id]
                ELSE get_vendor_id(role, user_vendor_id)
         code == IF v.code # 200 THEN v.code
                 ELSE create_work_assignment_service(v.vendor_id, driver_id,
                                                     vehicle_id, campaign_id)
         req == [vendor_id |-> v.vendor_id, called |-> v.code = 200,
                 driver_id |-> driver_id, vehicle_id |-> vehicle_id,
                 campaign_id |-> campaign_id]
     IN  /\ response' = Resp("create_work_assignment", req, role, code)
         /\ IF code = 201
              THEN driver_assignments' =
                     Insert(driver_assignments, NextId(driver_assignments),
                            [driver_id |-> driver_id, campaign_id |-> campaign_id,
                             vehicle_id |-> vehicle_id,
                             approval_status |-> "PENDING_APPROVAL",
                             approved_at |-> NULL, rejected_at |-> NULL,
                             rejection_reason |-> NULL, is_active |-> TRUE])
              ELSE UNCHANGED driver_assignments

\* VendorBookingService.get_assignment_details(db, assignment_id): the row
\* with that id, whoever its driver belongs to
get_assignment_details_service(assignment_id) ==
  IF assignment_id \notin DOMAIN driver_assignments
    THEN [code |-> 404, assignment |-> NULL]
    ELSE [code |-> 200, assignment |-> assignment_id]

\* GET /vendor-booking/assignments/{assignment_id}: v_id is computed for a
\* non-admin user and compared with nothing
get_assignment_details(role, user_vendor_id, assignment_id) ==
  /\ UNCHANGED tables
  /\ UNCHANGED <<invoice_seq, payment_seq, role_permissions, requests>>
  /\ LET r == get_assignment_details_service(assignment_id)
         v == IF role # "admin" THEN get_vendor_id(role, user_vendor_id)
              ELSE [code |-> 200, vendor_id |-> NULL]
         code == IF r.code # 200 THEN r.code ELSE v.code
     IN  response' = Resp("get_assignment_details",
                          [vendor_id |-> v.vendor_id,
                           assignment |-> IF code = 200 THEN r.assignment ELSE NULL],
                          role, code)

select_assignmentAnyDriver(tbl, assignment_id, driver_id) == assignment_id \in DOMAIN tbl

\* select(DriverAssignment).where(id == assignment_id, driver_id == driver_id)
select_assignment(tbl, assignment_id, driver_id) ==
  assignment_id \in DOMAIN tbl /\ tbl[assignment_id].driver_id = driver_id

\* the table after the call and the status the call is answered with
driver_approve_assignment(tbl, driver_id, assignment_id) ==
  IF ~select_assignment(tbl, assignment_id, driver_id)
    THEN [tbl |-> tbl, code |-> 404]
  ELSE [tbl |-> update(tbl, assignment_id,
                       [approval_status |-> "APPROVED", approved_at |-> Today,
                        rejected_at |-> NULL, rejection_reason |-> NULL]),
        code |-> 200]

driver_reject_assignment(tbl, driver_id, assignment_id, rejection_reason) ==
  IF ~select_assignment(tbl, assignment_id, driver_id)
    THEN [tbl |-> tbl, code |-> 404]
  ELSE [tbl |-> update(tbl, assignment_id,
                       [approval_status |-> "REJECTED", rejected_at |-> Today,
                        rejection_reason |-> rejection_reason, approved_at |-> NULL]),
        code |-> 200]

\* what a driver-action request was about: the driver found for the user,
\* the assignment and the service function that was called, if any
DriverAction(driver_id, assignment_id, called) ==
  [driver_id |-> driver_id, assignment_id |-> assignment_id, called |-> called]

\* POST /assignments/{assignment_id}/driver-action; driver_id is the id of
\* the drivers row with the user's email, NULL if there is none
driver_assignment_action(role, driver_id, assignment_id, action, rejection_reason) ==
  /\ UNCHANGED <<clients, projects, campaigns, expenses, reports, invoices,
                 promoter_activities, payments, invoice_seq, payment_seq,
                 role_permissions, requests>>
  /\ IF role # "driver"
       THEN /\ UNCHANGED driver_assignments
            /\ response' = Resp("driver_assignment_action",
                                DriverAction(driver_id, assignment_id, "none"), role, 403)
     ELSE IF driver_id = NULL
       THEN /\ UNCHANGED driver_assignments
            /\ response' = Resp("driver_assignment_action",
                                DriverAction(driver_id, assignment_id, "none"), role, 404)
     ELSE IF action = "approve"
       THEN LET r == driver_approve_assignment(driver_assignments, driver_id, assignment_id)
            IN  /\ driver_assignments' = r.tbl
                /\ response' = Resp("driver_assignment_action",
                                    DriverAction(driver_id, assignment_id,
                                                 "driver_approve_assignment"),
                                    role, r.code)
     ELSE IF action = "reject" /\ rejection_reason = NULL
       THEN /\ UNCHANGED driver_assignments
            /\ response' = Resp("driver_assignment_action",
                                DriverAction(driver_id, assignment_id, "none"), role, 400)
     ELSE IF action = "reject"
       THEN LET r == driver_reject_assignment(driver_assignments, driver_id,
                                              assignment_id, rejection_reason)
            IN  /\ driver_assignments' = r.tbl
                /\ response' = Resp("driver_assignment_action",
                                    DriverAction(driver_id, assignment_id,
                                                 "driver_reject_assignment"),
                                    role, r.code)
     ELSE /\ UNCHANGED driver_assignments
          /\ response' = Resp("driver_assignment_action",
                              DriverAction(driver_id, assignment_id, "none"), role, 400)

\* ------------------------------------------------------------ listings
\* InvoiceRepository.get_by_vendor / PaymentRepository.get_by_vendor: the
\* active rows of the vendor
get_by_vendor(tbl, vendor_id) ==
  {i \in DOMAIN tbl : tbl[i].vendor_id = vendor_id /\ tbl[i].is_active}

\* InvoiceRepository.get_all / PaymentRepository.get_all: the active rows
get_all(tbl) == {i \in DOMAIN tbl : tbl[i].is_active}

\* the status values listings are filtered by; "" is no filter
StatusFilters == {"", "pending"}

\* the rows a listing answers with, for the user who asked
Listing(user_vendor_id, rows) == [vendor_id |-> user_vendor_id, rows |-> rows]

\* GET /invoices (without campaign_id): a vendor's vendor_id selects the
\* rows when it is set, every other user gets all rows
get_invoices(role, user_vendor_id, status) ==
  /\ LET vendor_id == IF role = "vendor" THEN user_vendor_id ELSE NULL
         found == IF vendor_id # NULL THEN get_by_vendor(invoices, vendor_id)
                  ELSE get_all(invoices)
         rows == IF status # "" THEN {i \in found : invoices[i].status = status} ELSE found
     IN  response' = Resp("get_invoices", Listing(user_vendor_id, rows), role, 200)
  /\ UNCHANGED <<tables, invoice_seq, payment_seq, role_permissions, requests>>

\* GET /payments
get_payments(role, user_vendor_id, status) ==
  /\ LET vendor_id == IF role = "vendor" THEN user_vendor_id ELSE NULL
         found == IF vendor_id # NULL THEN get_by_vendor(payments, vendor_id)
                  ELSE get_all(payments)
         rows == IF status # "" THEN {p \in found : payments[p].status = status} ELSE found
     IN  response' = Resp("get_payments", Listing(user_vendor_id, rows), role, 200)
  /\ UNCHANGED <<tables, invoice_seq, payment_seq, role_permissions, requests>>

\* ------------------------------------------------- interleaved requests
\* Each request runs on its own AsyncSession; between two awaited
\* repository calls of one handler the calls of another handler may run.
\* A request in flight is kept in a slot with what its handler has read.
MaxRequests == 2

Slots == 1 .. MaxRequests

FreeSlot == CHOOSE r \in Slots : r \notin DOMAIN requests

\* the request of slot r goes on at step pc with the fields of data set
Proceed(r, pc, data) ==
  [x \in DOMAIN requests |->
     IF x = r
       THEN [f \in DOMAIN requests[r] |->
               IF f = "pc" THEN pc
               ELSE IF f \in DOMAIN data THEN data[f] ELSE requests[r][f]]
     ELSE requests[x]]

\* the request of slot r is answered
Finish(r) == [x \in DOMAIN requests \ {r} |-> requests[x]]

InFlight(op, pc) == {r \in DOMAIN requests : requests[r].op = op /\ requests[r].pc = pc}

\* approve_invoice up to the first read: the role check and
\* repo.get_by_id(invoice_id)
approve_invoice_get_by_id(role, invoice_id) ==
  /\ DOMAIN requests # Slots
  /\ UNCHANGED <<tables, invoice_seq, payment_seq, role_permissions>>
  /\ IF ~can_approve(role)
       THEN /\ UNCHANGED requests
            /\ response' = Resp("approve_invoice", invoice_id, role, 403)
     ELSE IF ~get_by_id(invoices, invoice_id)
       THEN /\ UNCHANGED requests
            /\ response' = Resp("approve_invoice", invoice_id, role, 404)
     ELSE IF invoices[invoice_id].status = "approved"
       THEN /\ UNCHANGED requests
            /\ response' = Resp("approve_invoice", invoice_id, role, 400)
     ELSE /\ requests' = Insert(requests, FreeSlot,
                                [op |-> "approve_invoice", pc |-> "update", role |-> role,
                                 invoice_id |-> invoice_id,
                                 amount |-> invoices[invoice_id].amount,
                                 vendor_id |-> invoices[invoice_id].vendor_id,
                                 status |-> "pending", payment_date |-> NULL,
                                 payment |-> NULL])
          /\ UNCHANGED response

\* repo.update(invoice_id, {"status": "approved"})
approve_invoice_update(r) ==
  /\ r \in InFlight("approve_invoice", "update")
  /\ invoices' = update_if_active(invoices, requests[r].invoice_id, [status |-> "approved"])
  /\ requests' = Proceed(r, "get_by_invoice", << >>)
  /\ UNCHANGED <<clients, projects, campaigns, expenses, reports, promoter_activities,
                 driver_assignments, payments, invoice_seq, payment_seq,
                 role_permissions, response>>

\* payment_repo.get_by_invoice(invoice_id)
approve_invoice_get_by_invoice(r) ==
  /\ r \in InFlight("approve_invoice", "get_by_invoice")
  /\ LET payment == get_by_invoice(payments, requests[r].invoice_id)
     IN  requests' = Proceed(r, "payment",
                             [payment |-> IF payment = {} THEN NULL
                                          ELSE CHOOSE p \in payment : TRUE])
  /\ UNCHANGED <<tables, invoice_seq, payment_seq, role_permissions, response>>

\* payment_repo.update or payment_repo.create, and the answer
approve_invoice_payment(r) ==
  /\ r \in InFlight("approve_invoice", "payment")
  /\ requests[r].payment = NULL => payment_seq <= MaxPayments
  /\ requests' = Finish(r)
  /\ UNCHANGED <<clients, projects, campaigns, expenses, reports, invoices,
                 promoter_activities, driver_assignments, invoice_seq, role_permissions>>
  /\ LET q == requests[r]
         answer == IF get_by_id(invoices, q.invoice_id) THEN 200 ELSE 404
     IN  IF q.payment # NULL
           THEN /\ payments' = update_if_active(payments, q.payment, PendingPayment(q))
                /\ UNCHANGED payment_seq
                /\ response' = Resp("approve_invoice", q.invoice_id, q.role, answer)
         ELSE IF PaymentRowOf(payments, q.invoice_id) # {}
           THEN /\ UNCHANGED <<payments, payment_seq>>
                /\ response' = Resp("approve_invoice", q.invoice_id, q.role, 500)
         ELSE /\ payments' = Insert(payments, payment_seq,
                                    NewPayment(q.invoice_id, PendingPayment(q)))
              /\ payment_seq' = payment_seq + 1
              /\ response' = Resp("approve_invoice", q.invoice_id, q.role, answer)

\* create_payment up to the first read: the role check and
\* invoice_repo.get_by_id(payment.invoice_id)
create_payment_get_by_id(role, invoice_id, amount, status, payment_date) ==
  /\ DOMAIN requests # Slots
  /\ UNCHANGED <<tables, invoice_seq, payment_seq, role_permissions>>
  /\ IF role \notin {"admin", "accounts"}
       THEN /\ UNCHANGED requests
            /\ response' = Resp("create_payment", NULL, role, 403)
     ELSE IF ~get_by_id(invoices, invoice_id)
       THEN /\ UNCHANGED requests
            /\ response' = Resp("create_payment", NULL, role, 404)
     ELSE /\ requests' = Insert(requests, FreeSlot,
                                [op |-> "create_payment", pc |-> "create", role |-> role,
                                 invoice_id |-> invoice_id, amount |-> amount,
                                 vendor_id |-> invoices[invoice_id].vendor_id,
                                 status |-> status, payment_date |-> payment_date,
                                 payment |-> NULL])
          /\ UNCHANGED response

\* repo.create(new_payment)
create_payment_create(r) ==
  /\ r \in InFlight("create_payment", "create")
  /\ payment_seq <= MaxPayments
  /\ UNCHANGED <<clients, projects, campaigns, expenses, reports, invoices,
                 promoter_activities, driver_assignments, invoice_seq, role_permissions>>
  /\ LET q == requests[r]
     IN  IF PaymentRowOf(payments, q.invoice_id) # {}
           THEN /\ UNCHANGED <<payments, payment_seq>>
                /\ requests' = Finish(r)
                /\ response' = Resp("create_payment", NULL, q.role, 500)
         ELSE /\ payments' = Insert(payments, payment_seq, NewPayment(q.invoice_id, q))
              /\ payment_seq' = payment_seq + 1
              /\ IF q.status = "completed"
                   THEN /\ requests' = Proceed(r, "update", [payment |-> payment_seq])
                        /\ UNCHANGED response
                 ELSE /\ requests' = Finish(r)
                      /\ response' = Resp("create_payment", payment_seq, q.role, 201)

\* invoice_repo.update(invoice.id, {"status": "paid"}) for a completed
\* payment, and the answer
create_payment_update(r) ==
  /\ r \in InFlight("create_payment", "update")
  /\ invoices' = update_if_active(invoices, requests[r].invoice_id, [status |-> "paid"])
  /\ requests' = Finish(r)
  /\ response' = Resp("create_payment", requests[r].payment, requests[r].role, 201)
  /\ UNCHANGED <<clients, projects, campaigns, expenses, reports, promoter_activities,
                 driver_assignments, payments, invoice_seq, payment_seq, role_permissions>>

\* ------------------------------------------------------------ GPS distance
\* Floating-point values are kept as integers scaled by FixedOne; every
\* product stays below 2^31.
FixedOne == 20000

\* math.pi, scaled
Pi == 62832

Abs(x) == IF x < 0 THEN -x ELSE x

\* p / q rounded to the nearest integer, q > 0
RoundDiv(p, q) == (IF p < 0 THEN -1 ELSE 1) * ((Abs(p) + q \div 2) \div q)

\* product of two scaled values
FixedMul(a, b) == RoundDiv(a * b, FixedOne)

\* math.radians
radians(deg) == RoundDiv(deg * Pi, 180)

\* the alternating power series t - t*x^2/((n+1)(n+2)) + ... up to the term
\* of degree last
RECURSIVE Series(_, _, _, _)
Series(x, t, n, last) ==
  IF n > last THEN 0
  ELSE t + Series(x, -RoundDiv(FixedMul(FixedMul(t, x), x), (n + 1) * (n + 2)),
                  n + 2, last)

\* math.sin and math.cos for arguments in [-pi/2, pi/2]
sin(x) == Series(x, x, 1, 13)
cos(x) == Series(x, FixedOne, 0, 14)

\* least r in lo..hi with r * r >= v
RECURSIVE SqrtCeil(_, _, _)
SqrtCeil(v, lo, hi) ==
  IF lo >= hi THEN lo
  ELSE LET mid == (lo + hi) \div 2
       IN  IF mid * mid >= v THEN SqrtCeil(v, lo, mid) ELSE SqrtCeil(v, mid + 1, hi)

\* math.sqrt of a scaled value in [0, 1], to the nearest scaled value
sqrt(a) ==
  LET v == a * FixedOne
      r == SqrtCeil(v, 0, FixedOne)
  IN  IF r > 0 /\ r * r - v > v - (r - 1) * (r - 1) THEN r - 1 ELSE r

\* least angle t in lo..hi with tan(t) >= y / x
RECURSIVE AngleOf(_, _, _, _)
AngleOf(y, x, lo, hi) ==
  IF lo >= hi THEN lo
  ELSE LET mid == (lo + hi) \div 2
       IN  IF FixedMul(sin(mid), x) >= FixedMul(cos(mid), y)
           THEN AngleOf(y, x, lo, mid)
           ELSE AngleOf(y, x, mid + 1, hi)

\* math.atan2 for y >= 0 and x >= 0 (both are square roots here)
atan2(y, x) == AngleOf(y, x, 0, Pi \div 2)

\* round(distance, 2): kilometres scaled by FixedOne to hundredths of a
\* kilometre
round2(distance) == RoundDiv(distance, FixedOne \div 100)

\* Earth's radius in kilometers
R == 6371

\* the longitude term taken at full weight whatever the latitudes
haversine_aUnweighted(sin_dlat, sin_dlon, cos_lat1, cos_lat2) ==
  FixedMul(sin_dlat, sin_dlat) + FixedMul(sin_dlon, sin_dlon)

\* a = sin(dlat/2)**2 + cos(lat1) * cos(lat2) * sin(dlon/2)**2
haversine_a(sin_dlat, sin_dlon, cos_lat1, cos_lat2) ==
  FixedMul(sin_dlat, sin_dlat)
    + FixedMul(FixedMul(cos_lat1, cos_lat2), FixedMul(sin_dlon, sin_dlon))

\* the distance in hundredths of a kilometre between two points given in
\* whole degrees
haversine_distance(lat1, lon1, lat2, lon2) ==
  LET lat1_rad == radians(lat1)
      lon1_rad == radians(lon1)
      lat2_rad == radians(lat2)
      lon2_rad == radians(lon2)
      dlat == lat2_rad - lat1_rad
      dlon == lon2_rad - lon1_rad
      sin_dlat == sin(RoundDiv(dlat, 2))
      sin_dlon == sin(RoundDiv(dlon, 2))
      a == haversine_a(sin_dlat, sin_dlon, cos(lat1_rad), cos(lat2_rad))
      c == 2 * atan2(sqrt(a), sqrt(FixedOne - a))
      distance == R * c
  IN  round2(distance)

\* the coordinates journeys are computed for, in degrees
Latitudes == {-90, -45, 0, 10, 30, 60, 90}
Longitudes == {0, 30, 75, 90, 135, 180}

\* calculate_journey_distance for coordinates that are present: out of range
\* raises ValueError, otherwise the answer is haversine_distance's
calculate_journey_distance(start_lat, start_lon, end_lat, end_lon) ==
  /\ -90 <= start_lat /\ start_lat <= 90 /\ -90 <= end_lat /\ end_lat <= 90
  /\ -180 <= start_lon /\ start_lon <= 180
  /\ -180 <= end_lon /\ end_lon <= 180
  /\ response' = Resp("calculate_journey_distance",
                      <<start_lat, start_lon, end_lat, end_lon>>, "none",
                      haversine_distance(start_lat, start_lon, end_lat, end_lon))
  /\ UNCHANGED <<tables, invoice_seq, payment_seq, role_permissions, requests>>


ClientIds == 1 .. MaxClients
ProjectIds == 1 .. MaxProjects
CampaignIds == 1 .. MaxCampaigns
ExpenseIds == 1 .. MaxExpenses
ReportIds == 1 .. MaxReports
ActivityIds == 1 .. MaxActivities
InvoiceIds == 1 .. MaxInvoices
PaymentIds == 1 .. MaxPayments

\* Requests against clients, projects, campaigns and their dependents
Next ==
  \E role \in CascadeRoles, db_ok \in {TRUE} :
    \/ create_client(role, db_ok)
    \/ \E c \in ClientIds : update_client(role, c, db_ok)
    \/ \E c \in ClientIds, fail_at \in 0 .. CommitStep : delete_client(role, c, fail_at, db_ok)
    \/ \E c \in ClientIds : create_project(role, c, db_ok)
    \/ \E p \in ProjectIds, c \in {NULL} \cup ClientIds : update_project(role, p, c, db_ok)
    \/ \E p \in ProjectIds : delete_project(role, p, db_ok)
    \/ \E p \in ProjectIds, vs \in SUBSET Vendors : create_campaign(role, p, vs, db_ok)
    \/ \E k \in CampaignIds, sv \in BOOLEAN, vs \in SUBSET Vendors :
         update_campaign(role, k, sv, vs, db_ok)
    \/ \E k \in CampaignIds : delete_campaign(role, k, db_ok)
    \/ \E k \in {NULL} \cup CampaignIds : create_expense(role, k, db_ok)
    \/ \E e \in ExpenseIds : delete_expense(role, e, db_ok)
    \/ \E k \in CampaignIds : create_report(role, k, db_ok)
    \/ \E r \in ReportIds : delete_report(role, r, db_ok)
    \/ \E k \in CampaignIds : create_activity(role, k, db_ok)
    \/ \E a \in ActivityIds : delete_activity(role, a, db_ok)

Spec == Init /\ [][Next]_vars

\* Requests against the invoice and payment handlers
NextInvoice ==
  \E role \in InvoiceRoles :
    \/ \E v \in {NULL} \cup Vendors, n \in InvoiceNumbers, a \in Amounts,
          k \in {NULL} \cup CampaignIds : create_invoice(role, v, n, a, k)
    \/ \E i \in InvoiceIds : approve_invoice(role, i)
    \/ \E i \in InvoiceIds : mark_invoice_paid(role, i)
    \/ \E i \in InvoiceIds : update_invoice(role, i)
    \/ \E i \in InvoiceIds : delete_invoice(role, i)
    \/ \E i \in InvoiceIds, a \in Amounts, s \in PaymentStatuses, d \in {NULL, Today} :
         create_payment(role, i, a, s, d)
    \/ \E p \in PaymentIds, a \in {UNSET} \cup Amounts, s \in {"unset"} \cup PaymentStatuses,
          d \in {UNSET, NULL, Today} : update_payment(role, p, a, s, d)
    \/ \E p \in PaymentIds : delete_payment(role, p)

SpecInvoice == Init /\ [][NextInvoice]_vars

\* Rows of the role_permissions table.  No handler writes the table; its rows
\* are put there by the administrator of the database.
Grants == {<<"sales", "expense.approve">>, <<"vendor", "expense.update">>}

InitExpense ==
  /\ clients = Empty /\ projects = Empty /\ campaigns = Empty
  /\ expenses = Empty /\ reports = Empty /\ invoices = Empty
  /\ promoter_activities = Empty /\ driver_assignments = Empty
  /\ payments = Empty
  /\ invoice_seq = 1 /\ payment_seq = 1
  /\ role_permissions \in SUBSET Grants
  /\ requests = Empty
  /\ response = Resp("none", NULL, "admin", 0)

\* Requests against the expense handlers, from every role, with the SELECT on
\* role_permissions succeeding or raising
NextExpense ==
  \E role \in Roles, db_ok \in BOOLEAN :
    \/ \E k \in {NULL} \cup CampaignIds : create_expense(role, k, db_ok)
    \/ \E e \in ExpenseIds : approve_expense(role, e, db_ok)
    \/ \E e \in ExpenseIds : reject_expense(role, e, db_ok)
    \/ \E e \in ExpenseIds, k \in {NULL} \cup CampaignIds : update_expense(role, e, k, db_ok)
    \/ \E e \in ExpenseIds : delete_expense(role, e, db_ok)

SpecExpense == InitExpense /\ [][NextExpense]_vars

\* the roles requests to the upload handler are sent with; driver holds no
\* invoice or payment permission in ROLE_PERMISSIONS
AccessRoles == {"admin", "vendor", "driver"}

\* Requests that store, upload to and delete invoices, and the requests to
\* the handlers that resolve no user
NextAccess ==
  \/ \E role \in AccessRoles, v \in {NULL} \cup Vendors :
       \/ \E n \in InvoiceNumbers, a \in Amounts : create_invoice(role, v, n, a, NULL)
       \/ \E i \in InvoiceIds : upload_invoice_file(role, v, i)
       \/ \E i \in InvoiceIds : delete_invoice(role, i)
  \/ \E a \in DailyLogIds : create_daily_activity_log(a)
  \/ \E l \in DailyLogIds : update_daily_log(l)
  \/ \E l \in DailyLogIds : delete_daily_log(l)

SpecAccess == Init /\ [][NextAccess]_vars

\* a journey whose distance is still to be computed
Journey(start_lat, start_lon, end_lat, end_lon) ==
  Resp("journey", <<start_lat, start_lon, end_lat, end_lon>>, "none", 0)

\* nothing is stored, and a journey between two points of the grid is given
InitGps ==
  /\ clients = Empty /\ projects = Empty /\ campaigns = Empty
  /\ expenses = Empty /\ reports = Empty /\ invoices = Empty
  /\ promoter_activities = Empty /\ driver_assignments = Empty
  /\ payments = Empty
  /\ invoice_seq = 1 /\ payment_seq = 1
  /\ role_permissions = {}
  /\ requests = Empty
  /\ \E lat1 \in Latitudes, lon1 \in Longitudes,
        lat2 \in Latitudes, lon2 \in Longitudes :
       response = Journey(lat1, lon1, lat2, lon2)

\* The distance of the given journey is computed
NextGps ==
  \E lat1 \in Latitudes, lon1 \in Longitudes, lat2 \in Latitudes, lon2 \in Longitudes :
    /\ response = Journey(lat1, lon1, lat2, lon2)
    /\ calculate_journey_distance(lat1, lon1, lat2, lon2)

SpecGps == InitGps /\ [][NextGps]_vars

\* the roles the interleaved requests are sent with
ConcurrentRoles == {"admin", "vendor"}

\* Vendor 1 stores invoices and payments are deleted in one step each; the steps of
\* approve_invoice and create_payment requests interleave
NextConcurrent ==
  \/ \E n \in InvoiceNumbers, a \in Amounts : create_invoice("vendor", 1, n, a, NULL)
  \/ \E p \in PaymentIds : delete_payment("admin", p)
  \/ \E role \in ConcurrentRoles, i \in InvoiceIds : approve_invoice_get_by_id(role, i)
  \/ \E r \in Slots : approve_invoice_update(r)
  \/ \E r \in Slots : approve_invoice_get_by_invoice(r)
  \/ \E r \in Slots : approve_invoice_payment(r)
  \/ \E role \in ConcurrentRoles, i \in InvoiceIds, a \in Amounts, st \in PaymentStatuses :
       create_payment_get_by_id(role, i, a, st, NULL)
  \/ \E r \in Slots : create_payment_create(r)
  \/ \E r \in Slots : create_payment_update(r)

SpecConcurrent == Init /\ [][NextConcurrent]_vars

\* the roles listings are asked with
ListingRoles == {"admin", "vendor"}

\* Vendors store invoices, an admin approves them, and users with and
\* without a vendor_id list invoices and payments
NextListing ==
  \/ \E v \in Vendors, n \in InvoiceNumbers, a \in Amounts :
       create_invoice("vendor", v, n, a, NULL)
  \/ \E i \in InvoiceIds : approve_invoice("admin", i)
  \/ \E role \in ListingRoles, v \in {NULL} \cup Vendors, st \in StatusFilters :
       get_invoices(role, v, st)
  \/ \E role \in ListingRoles, v \in {NULL} \cup Vendors, st \in StatusFilters :
       get_payments(role, v, st)

SpecListing == Init /\ [][NextListing]_vars

\* Clients, projects, campaigns and the rows under them are stored and
\* soft-deleted one by one, and previews are asked for
NextPreview ==
  \E role \in CascadeRoles, db_ok \in {TRUE} :
    \/ create_client(role, db_ok)
    \/ \E c \in ClientIds : create_project(role, c, db_ok)
    \/ \E p \in ProjectIds : delete_project(role, p, db_ok)
    \/ \E p \in ProjectIds, vs \in SUBSET {1} : create_campaign(role, p, vs, db_ok)
    \/ \E k \in CampaignIds : delete_campaign(role, k, db_ok)
    \/ \E k \in CampaignIds : create_expense(role, k, db_ok)
    \/ \E e \in ExpenseIds : delete_expense(role, e, db_ok)
    \/ \E k \in CampaignIds : create_report(role, k, db_ok)
    \/ \E r \in ReportIds : delete_report(role, r, db_ok)
    \/ \E k \in CampaignIds : create_activity(role, k, db_ok)
    \/ \E c \in ClientIds : get_deletion_preview(role, c, db_ok)

SpecPreview == Init /\ [][NextPreview]_vars

AssignmentIds == 1 .. MaxAssignments

\* the roles driver-action requests are sent with
AssignmentRoles == {"driver", "vendor"}

\* Assignments are stored for the drivers, and users that are drivers or not
\* ask to approve and to reject them
NextAssignment ==
  \/ create_client("admin", TRUE)
  \/ \E c \in ClientIds : create_project("admin", c, TRUE)
  \/ \E p \in ProjectIds : create_campaign("admin", p, {}, TRUE)
  \/ \E d \in Drivers, k \in CampaignIds :
       create_work_assignment("vendor", 1, NULL, d, 1, k)
  \/ \E role \in AssignmentRoles, d \in {NULL} \cup Drivers, a \in AssignmentIds,
        action \in Actions, reason \in {NULL, Reason} :
       driver_assignment_action(role, d, a, action, reason)

SpecAssignment == Init /\ [][NextAssignment]_vars

\* the roles assignments are created and read with
BookingRoles == {"admin", "sales", "vendor", "driver"}

\* Campaigns are set up, assignments are created for drivers and vehicles by
\* users of every role, with and without a vendor, and read one at a time
NextBooking ==
  \/ create_client("admin", TRUE)
  \/ \E c \in ClientIds : create_project("admin", c, TRUE)
  \/ \E p \in ProjectIds : create_campaign("admin", p, {}, TRUE)
  \/ \E role \in BookingRoles, user_vendor_id \in {NULL} \cup Vendors,
        vendor_id \in {NULL} \cup Vendors, d \in Drivers, v \in Vehicles,
        k \in CampaignIds :
       create_work_assignment(role, user_vendor_id, vendor_id, d, v, k)
  \/ \E role \in BookingRoles, user_vendor_id \in {NULL} \cup Vendors,
        a \in AssignmentIds :
       get_assignment_details(role, user_vendor_id, a)

SpecBooking == Init /\ [][NextBooking]_vars

\* ------------------------------------------------------------ properties
ProjectsOf(c) == {p \in DOMAIN projects : projects[p].client_id = c}
CampaignsOf(c) == {k \in DOMAIN campaigns : campaigns[k].project_id \in ProjectsOf(c)}

NoneActive(tbl, ids) == \A i \in ids : ~tbl[i].is_active

NothingActiveOf(c) ==
  /\ ~clients[c].is_active
  /\ NoneActive(projects, ProjectsOf(c))
  /\ NoneActive(campaigns, CampaignsOf(c))
  /\ NoneActive(expenses, ByCampaign(expenses, CampaignsOf(c)))
  /\ NoneActive(reports, ByCampaign(reports, CampaignsOf(c)))
  /\ NoneActive(invoices, ByCampaign(invoices, CampaignsOf(c)))
  /\ NoneActive(promoter_activities, ByCampaign(promoter_activities, CampaignsOf(c)))
  /\ NoneActive(driver_assignments, ByCampaign(driver_assignments, CampaignsOf(c)))

\* C1: after a successful DELETE /clients/{c}, client c is inactive and no
\* project of c, no campaign of such a project and no expense, report,
\* invoice, promoter activity or driver assignment of such a campaign is
\* active.
C1_NothingOfClientRemainsActive ==
  (response.op = "delete_client" /\ response.code = 200) => NothingActiveOf(response.id)

\* the cascade of safe_delete_client on client c, from the state before the
\* step to the state after it
CascadeApplied(c) ==
  /\ ~clients'[c].is_active
  /\ NoneActive(projects', project_ids(DB, c))
  /\ NoneActive(campaigns', campaign_ids(DB, c))
  /\ NoneActive(expenses', ByCampaign(expenses, campaign_ids(DB, c)))
  /\ NoneActive(reports', ByCampaign(reports, campaign_ids(DB, c)))
  /\ NoneActive(invoices', ByCampaign(invoices, campaign_ids(DB, c)))
  /\ NoneActive(promoter_activities', ByCampaign(promoter_activities, campaign_ids(DB, c)))
  /\ NoneActive(driver_assignments', ByCampaign(driver_assignments, campaign_ids(DB, c)))

\* C2: a DELETE /clients/{c} that is not answered 200 leaves every row of
\* every table as it was, and one answered 200 has applied the whole
\* cascade: no step shows a part of it.
C2_AllOrNothing ==
  [][response'.op = "delete_client" =>
       IF response'.code = 200 THEN CascadeApplied(response'.id)
                               ELSE tables' = tables]_vars

\* a delete of a client with a non-empty cascade has failed and been rolled
\* back: the client, a campaign of it and a dependent row are still active
C2_Witness ==
  /\ response.op = "delete_client" /\ response.code = 500
  /\ IsActive(clients, response.id)
  /\ \E k \in campaign_ids(DB, response.id) :
        \/ \E e \in ByCampaign(expenses, {k}) : expenses[e].is_active
        \/ \E i \in ByCampaign(invoices, {k}) : invoices[i].is_active

\* C6: an active project has an active client, an active campaign an active
\* project, and an active expense, report, invoice, promoter activity or
\* driver assignment that names a campaign names an active one.
ActiveParent(tbl, parent) ==
  \A i \in DOMAIN tbl :
     (tbl[i].is_active /\ tbl[i].campaign_id # NULL) => IsActive(parent, tbl[i].campaign_id)

C6_ActiveRowsHaveActiveParents ==
  /\ \A p \in DOMAIN projects : projects[p].is_active => IsActive(clients, projects[p].client_id)
  /\ \A k \in DOMAIN campaigns : campaigns[k].is_active => IsActive(projects, campaigns[k].project_id)
  /\ ActiveParent(expenses, campaigns)
  /\ ActiveParent(reports, campaigns)
  /\ ActiveParent(invoices, campaigns)
  /\ ActiveParent(promoter_activities, campaigns)
  /\ ActiveParent(driver_assignments, campaigns)

\* C9: an authorised DELETE /clients/{id} for an id that is not stored or is
\* already soft-deleted is answered 404 and changes no row.
C9_DeleteMissingClientIs404 ==
  [][(response'.op = "delete_client" /\ response'.code # 403
        /\ ~IsActive(clients, response'.id))
       => (response'.code = 404 /\ tables' = tables)]_vars

\* C10: no request removes a stored row of clients, projects, campaigns,
\* expenses, invoices or payments.
C10_StoredRowsNeverShrink ==
  [][/\ DOMAIN clients \subseteq DOMAIN clients'
     /\ DOMAIN projects \subseteq DOMAIN projects'
     /\ DOMAIN campaigns \subseteq DOMAIN campaigns'
     /\ DOMAIN expenses \subseteq DOMAIN expenses'
     /\ DOMAIN invoices \subseteq DOMAIN invoices'
     /\ DOMAIN payments \subseteq DOMAIN payments']_vars

\* C3: when approve_invoice answers 200 for an invoice whose status was
\* pending, the invoice has exactly one active payment row afterwards, and
\* that row is pending, has no payment date and carries the invoice's amount
\* and vendor.
C3_ApproveLeavesOnePendingPayment ==
  [][(/\ response'.op = "approve_invoice" /\ response'.code = 200
      /\ invoices[response'.id].status = "pending")
       => LET i  == response'.id
              ps == get_by_invoice(payments', i)
          IN /\ Cardinality(ps) = 1
             /\ \A p \in ps : /\ payments'[p].status = "pending"
                              /\ payments'[p].payment_date = NULL
                              /\ payments'[p].amount = invoices'[i].amount
                              /\ payments'[p].vendor_id = invoices'[i].vendor_id]_vars

\* invoice 1 has just been approved and its payment row, the only one ever
\* stored, is the pending payment of the invoice's amount
C3_Witness ==
  /\ response.op = "approve_invoice" /\ response.code = 200 /\ response.id = 1
  /\ invoices[1].status = "approved" /\ invoices[1].amount = 20
  /\ payment_seq = 2
  /\ payments[1].invoice_id = 1 /\ payments[1].is_active
  /\ payments[1].status = "pending" /\ payments[1].amount = 20
  /\ payments[1].payment_date = NULL

\* the expense's status and approved_date are the same before and after
ExpenseStatusKept(e) ==
  /\ expenses'[e].status = expenses[e].status
  /\ expenses'[e].approved_date = expenses[e].approved_date

\* C4: PATCH /expenses/{id}/approve or /reject from a role that holds
\* expense.approve neither in the hardcoded table nor in the role_permissions
\* table is answered 403 and leaves every expense's status and approved_date.
C4_NoApprovePermissionIs403 ==
  [][(/\ response'.op \in {"approve_expense", "reject_expense"}
      /\ ~has_permission(response'.role, "expense.approve")
      /\ <<response'.role, "expense.approve">> \notin role_permissions)
       => (/\ response'.code = 403
           /\ DOMAIN expenses' = DOMAIN expenses
           /\ \A e \in DOMAIN expenses : ExpenseStatusKept(e))]_vars

\* a vendor's approve of the stored pending expense has been answered 403
C4_Witness ==
  /\ response.op = "approve_expense" /\ response.code = 403 /\ response.role = "vendor"
  /\ <<"vendor", "expense.approve">> \notin role_permissions
  /\ IsActive(expenses, response.id)
  /\ expenses[response.id].status = "pending"
  /\ expenses[response.id].approved_date = NULL

\* C5: when the SELECT on role_permissions succeeds, check_user_permission
\* answers exactly whether the (role, permission) pair is a row of the table;
\* the hardcoded table is not consulted.
C5_HardcodedOnlyWhenQueryFails ==
  \A role \in Roles, permission \in AllPermissions :
     check_user_permission(role, permission, TRUE) = (<<role, permission>> \in role_permissions)

\* the order pending, submitted, approved, paid of InvoiceStatus
InvoiceRank(status) ==
  CASE status = "pending" -> 1
    [] status = "submitted" -> 2
    [] status = "approved" -> 3
    [] status = "paid" -> 4

\* C7: no request moves an invoice's status to an earlier one in the order
\* pending, submitted, approved, paid.
C7_InvoiceStatusOnlyForward ==
  [][\A i \in DOMAIN invoices \cap DOMAIN invoices' :
       InvoiceRank(invoices'[i].status) >= InvoiceRank(invoices[i].status)]_vars

\* C8: an expense's status changes only from pending, and only to approved or
\* rejected.
C8_ExpenseStatusOnlyFromPending ==
  [][\A e \in DOMAIN expenses \cap DOMAIN expenses' :
       expenses'[e].status # expenses[e].status
         => (/\ expenses[e].status = "pending"
             /\ expenses'[e].status \in {"approved", "rejected"})]_vars

\* the permissions of ROLE_PERMISSIONS that allow writing invoices or payments
InvoiceWritePermissions ==
  {"invoice.create", "invoice.update", "invoice.delete", "invoice.approve",
   "payment.create", "payment.update", "payment.delete"}

\* C11: a request changes a stored row only when it comes from a user whose
\* role holds a permission to write the resource; a request of a role that
\* holds none, or of no user, changes nothing.
C11_WritesNeedAuthorisedUser ==
  [][tables' # tables =>
       (/\ response'.role \in Roles
        /\ \E p \in InvoiceWritePermissions : has_permission(response'.role, p))]_vars

\* the angle in degrees between two points whose great circle is known: both
\* on one meridian or one of them a pole, on opposite meridians (the arc runs
\* over the nearer pole), or both on the equator; -1 for any other pair
CentralAngle(lat1, lon1, lat2, lon2) ==
  IF lon1 = lon2 \/ Abs(lat1) = 90 \/ Abs(lat2) = 90 THEN Abs(lat1 - lat2)
  ELSE IF Abs(lon1 - lon2) = 180 THEN 180 - Abs(lat1 + lat2)
  ELSE IF lat1 = 0 /\ lat2 = 0 THEN Abs(lon1 - lon2)
  ELSE -1

\* the length in hundredths of a kilometre of an arc of deg degrees on a
\* sphere of radius 6371 km: 6371 * pi / 180 = 111.195 km per degree
ArcLength(deg) == RoundDiv(deg * 111195, 10)

\* 5 km, in hundredths of a kilometre
Tolerance == 500

\* C12: the distance computed for two points is the length of the great
\* circle arc between them on a sphere of radius 6371 km, within the
\* tolerance, for every pair whose arc is known.
C12_HaversineIsGreatCircleDistance ==
  response.op = "calculate_journey_distance" =>
    LET q == response.id
        deg == CentralAngle(q[1], q[2], q[3], q[4])
    IN  deg >= 0 => Abs(response.code - ArcLength(deg)) <= Tolerance

\* a journey over the pole between two points at 60 degrees north on opposite
\* meridians, 60 degrees of arc, has been computed
C12_Witness ==
  /\ response.op = "calculate_journey_distance"
  /\ response.id = <<60, 0, 60, 180>>
  /\ Abs(response.code - 667170) <= Tolerance

\* C13: whatever the interleaving of approve_invoice and create_payment
\* requests, an invoice never has two active payment rows.
C13_AtMostOneActivePayment ==
  \A i \in DOMAIN invoices : Cardinality(get_by_invoice(payments, i)) <= 1

\* approve_invoice found no payment, a create_payment request stored one
\* before approve_invoice came to store its own, and the second INSERT was
\* refused: the invoice has its one active payment
C13_Witness ==
  /\ response.op = "approve_invoice" /\ response.code = 500
  /\ Cardinality(get_by_invoice(payments, response.id)) = 1

\* the payments a step sets to completed: stored completed, or changed to it
SetCompleted ==
  {p \in DOMAIN payments' :
     /\ payments'[p].status = "completed"
     /\ (p \in DOMAIN payments => payments[p].status # "completed")}

\* C14: when a request has set a payment to completed, the invoice of the
\* payment has status paid once the request is answered.
C14_CompletedPaymentMeansPaidInvoice ==
  [][\A p \in SetCompleted : invoices'[payments'[p].invoice_id].status = "paid"]_vars

\* C15: an invoice with status paid has an active payment with status
\* completed.
C15_PaidInvoiceHasCompletedPayment ==
  \A i \in DOMAIN invoices :
    invoices[i].status = "paid"
      => \E p \in get_by_invoice(payments, i) : payments[p].status = "completed"

\* C16: an approve_invoice or mark_invoice_paid request of a role other than
\* admin and accounts is answered 403 and changes no invoice and no payment.
C16_OnlyAdminOrAccountsApprove ==
  [][(/\ response'.op \in {"approve_invoice", "mark_invoice_paid"}
      /\ response'.role \notin {"admin", "accounts"})
       => (response'.code = 403 /\ UNCHANGED <<invoices, payments>>)]_vars

\* a vendor has asked to approve a stored, pending invoice and was refused
C16_Witness ==
  /\ response = Resp("approve_invoice", response.id, "vendor", 403)
  /\ response.id \in DOMAIN invoices
  /\ invoices[response.id].is_active
  /\ invoices[response.id].status = "pending"

\* C17: the rows GET /invoices and GET /payments answer a vendor with are
\* rows of that vendor.
C17_VendorListsOwnRowsOnly ==
  /\ (response.op = "get_invoices" /\ response.role = "vendor")
       => \A i \in response.id.rows : invoices[i].vendor_id = response.id.vendor_id
  /\ (response.op = "get_payments" /\ response.role = "vendor")
       => \A p \in response.id.rows : payments[p].vendor_id = response.id.vendor_id

\* the types of rows a preview counts
PreviewTypes ==
  {"projects", "campaigns", "expenses", "reports", "invoices",
   "promoter_activities", "driver_assignments"}

\* C18: the counts a deletion preview of a client has answered with are, type
\* by type, the deleted_counts safe_delete_client returns when it is called
\* for that client on the same stored rows.
C18_PreviewCountsAreDeletedCounts ==
  (response.op = "get_deletion_preview" /\ response.code = 200)
    => LET r == safe_delete_client(DB, response.id.client_id, 0)
       IN  /\ r.raised = "none"
           /\ \A t \in PreviewTypes : r.deleted_counts[t] = response.id.will_delete[t]

\* a preview has counted a project and a campaign of the client, and no
\* expense, the campaign's one expense being soft-deleted
C18_Witness ==
  /\ response.op = "get_deletion_preview" /\ response.code = 200
  /\ response.id.will_delete.projects = 1
  /\ response.id.will_delete.campaigns = 1
  /\ response.id.will_delete.expenses = 0
  /\ \E e \in DOMAIN expenses :
       /\ ~expenses[e].is_active
       /\ expenses[e].campaign_id \in campaign_ids(DB, response.id.client_id)

\* C19: a request to approve, reject or update an expense that is answered
\* 404 has modified no expense row.
C19_NotFoundLeavesExpensesAlone ==
  [][(/\ response'.op \in {"approve_expense", "reject_expense", "update_expense"}
      /\ response'.code = 404)
       => UNCHANGED expenses]_vars

\* C20: driver_approve_assignment and driver_reject_assignment change an
\* assignment only when its driver_id is the acting driver; called for an
\* assignment of another driver they answer 404 and change nothing.
C20_OnlyAssignedDriverDecides ==
  [][response'.op = "driver_assignment_action" =>
       LET q == response'.id
       IN  /\ \A a \in DOMAIN driver_assignments :
                driver_assignments'[a] # driver_assignments[a]
                  => (a = q.assignment_id /\ driver_assignments[a].driver_id = q.driver_id)
           /\ (/\ q.called # "none"
               /\ q.assignment_id \in DOMAIN driver_assignments
               /\ driver_assignments[q.assignment_id].driver_id # q.driver_id)
                => (response'.code = 404 /\ UNCHANGED driver_assignments)]_vars

\* driver 2 has asked to approve or reject a stored assignment of driver 1,
\* which is still pending approval
C20_Witness ==
  /\ response.op = "driver_assignment_action" /\ response.code = 404
  /\ response.id.called # "none"
  /\ response.id.driver_id = 2
  /\ response.id.assignment_id \in DOMAIN driver_assignments
  /\ driver_assignments[response.id.assignment_id].driver_id = 1
  /\ driver_assignments[response.id.assignment_id].approval_status = "PENDING_APPROVAL"

\* the driver and the vehicle of a create request both belong to the vendor
\* the request acts for
OwnedByActingVendor(q) ==
  /\ q.vendor_id # NULL
  /\ drivers[q.driver_id].vendor_id = q.vendor_id
  /\ vehicles[q.vehicle_id].vendor_id = q.vendor_id

\* C21: create_work_assignment creates an assignment only when both the
\* driver and the vehicle belong to the acting vendor; called with a driver or
\* a vehicle whose vendor_id is not the one it acts for, it answers 403 and
\* creates nothing.
C21_AssignmentsCreatedForOwnVendorOnly ==
  [][response'.op = "create_work_assignment" =>
       LET q == response'.id
       IN  /\ driver_assignments' # driver_assignments => OwnedByActingVendor(q)
           /\ (/\ q.called
               /\ \/ drivers[q.driver_id].vendor_id # q.vendor_id
                  \/ vehicles[q.vehicle_id].vendor_id # q.vendor_id)
                => (response'.code = 403 /\ UNCHANGED driver_assignments)]_vars

\* C22: a user with the vendor role (one of the non-admin users) who is
\* answered 200 by GET /vendor-booking/assignments/{id} has received an
\* assignment whose driver belongs to that user's vendor.
C22_ReadOneAssignmentOfOwnVendorOnly ==
  (/\ response.op = "get_assignment_details"
   /\ response.code = 200
   /\ response.role = "vendor")
    => drivers[driver_assignments[response.id.assignment].driver_id].vendor_id
         = response.id.vendor_id

====
